---- MODULE Spec2Model ----
(***************************************************************************)
(* Model of structure/projection/project_2d.py: the SpectrumCalculator     *)
(* orchestrator (option parsing, per-run execute, cache release), the      *)
(* bin-pair loop of compute_spectrum, Spectrum.compute and the exact       *)
(* multipole grid built by SpectrumCalculator.__init__.                    *)
(***************************************************************************)
EXTENDS Integers, Sequences, FiniteSets, TLC

(* ------------------------------ bounds -------------------------------- *)
\* largest number of sample pairs requested over all correlation options
MaxReq == 2
\* largest number of tomographic bins of a sample (the block's nbin)
MaxBins == 2
\* number of execute calls followed on one SpectrumCalculator
MaxRuns == 2
\* largest number of option names listed in do_exact
MaxExact == 1

\* sample names, power suffixes and save names used in option values
Samples == {"a", "b"}
SamplePairs == {<<"a", "a">>, <<"a", "b">>, <<"b", "b">>}
Suffixes == {""}
SaveNames == {""}

None == "None"

(* ------------------------ the correlation kinds ----------------------- *)
\* class SpectrumType(Enum): one entry per nested Spectrum class.
\* cls is the base class whose methods the kind inherits.
SpectrumType ==
  [ ShearShear |->
      [power_3d_type |-> "MatterPower3D", kernel_types |-> <<"W", "W">>,
       autocorrelation |-> TRUE, name |-> "shear_cl",
       prefactor_type |-> <<"lensing", "lensing">>, has_rsd |-> FALSE,
       cls |-> "Spectrum"],
    ShearIntrinsic |->
      [power_3d_type |-> "MatterIntrinsicPower3D", kernel_types |-> <<"W", "N">>,
       autocorrelation |-> FALSE, name |-> "shear_cl_gi",
       prefactor_type |-> <<"lensing", None>>, has_rsd |-> FALSE,
       cls |-> "Spectrum"],
    IntrinsicIntrinsic |->
      [power_3d_type |-> "IntrinsicPower3D", kernel_types |-> <<"N", "N">>,
       autocorrelation |-> TRUE, name |-> "shear_cl_ii",
       prefactor_type |-> <<None, None>>, has_rsd |-> FALSE,
       cls |-> "Spectrum"],
    IntrinsicbIntrinsicb |->
      [power_3d_type |-> "IntrinsicBBPower3D", kernel_types |-> <<"N", "N">>,
       autocorrelation |-> TRUE, name |-> "shear_cl_bb",
       prefactor_type |-> <<None, None>>, has_rsd |-> FALSE,
       cls |-> "Spectrum"],
    PositionPosition |->
      [power_3d_type |-> "MatterPower3D", kernel_types |-> <<"N", "N">>,
       autocorrelation |-> TRUE, name |-> "galaxy_cl",
       prefactor_type |-> <<None, None>>, has_rsd |-> FALSE,
       cls |-> "Spectrum"],
    MagnificationDensity |->
      [power_3d_type |-> "MatterPower3D", kernel_types |-> <<"W", "N">>,
       autocorrelation |-> FALSE, name |-> "magnification_density_cl",
       prefactor_type |-> <<"mag", None>>, has_rsd |-> FALSE,
       cls |-> "Spectrum"],
    MagnificationMagnification |->
      [power_3d_type |-> "MatterPower3D", kernel_types |-> <<"W", "W">>,
       autocorrelation |-> TRUE, name |-> "magnification_cl",
       prefactor_type |-> <<"mag", "mag">>, has_rsd |-> FALSE,
       cls |-> "Spectrum"],
    PositionShear |->
      [power_3d_type |-> "MatterPower3D", kernel_types |-> <<"N", "W">>,
       autocorrelation |-> FALSE, name |-> "galaxy_shear_cl",
       prefactor_type |-> <<None, "lensing">>, has_rsd |-> FALSE,
       cls |-> "Spectrum"],
    DensityIntrinsic |->
      [power_3d_type |-> "MatterIntrinsicPower3D", kernel_types |-> <<"N", "N">>,
       autocorrelation |-> FALSE, name |-> "galaxy_intrinsic_cl",
       prefactor_type |-> <<None, None>>, has_rsd |-> FALSE,
       cls |-> "Spectrum"],
    MagnificationIntrinsic |->
      [power_3d_type |-> "MatterIntrinsicPower3D", kernel_types |-> <<"W", "N">>,
       autocorrelation |-> FALSE, name |-> "magnification_intrinsic_cl",
       prefactor_type |-> <<"mag", None>>, has_rsd |-> FALSE,
       cls |-> "Spectrum"],
    MagnificationShear |->
      [power_3d_type |-> "MatterPower3D", kernel_types |-> <<"W", "W">>,
       autocorrelation |-> FALSE, name |-> "magnification_shear_cl",
       prefactor_type |-> <<"mag", "lensing">>, has_rsd |-> FALSE,
       cls |-> "Spectrum"],
    ShearCmbkappa |->
      [power_3d_type |-> "MatterPower3D", kernel_types |-> <<"W", "K">>,
       autocorrelation |-> FALSE, name |-> "shear_cmbkappa_cl",
       prefactor_type |-> <<"lensing", "lensing">>, has_rsd |-> FALSE,
       cls |-> "Spectrum"],
    CmbkappaCmbkappa |->
      [power_3d_type |-> "MatterPower3D", kernel_types |-> <<"K", "K">>,
       autocorrelation |-> TRUE, name |-> "cmbkappa_cl",
       prefactor_type |-> <<"lensing", "lensing">>, has_rsd |-> FALSE,
       cls |-> "Spectrum"],
    IntrinsicCmbkappa |->
      [power_3d_type |-> "MatterIntrinsicPower3D", kernel_types |-> <<"N", "K">>,
       autocorrelation |-> FALSE, name |-> "intrinsic_cmbkappa_cl",
       prefactor_type |-> <<None, "lensing">>, has_rsd |-> FALSE,
       cls |-> "Spectrum"],
    DensityCmbkappa |->
      [power_3d_type |-> "MatterPower3D", kernel_types |-> <<"N", "K">>,
       autocorrelation |-> FALSE, name |-> "galaxy_cmbkappa_cl",
       prefactor_type |-> <<None, "lensing">>, has_rsd |-> FALSE,
       cls |-> "Spectrum"],
    FastShearShearIA |->
      [power_3d_type |-> "MatterPower3D", kernel_types |-> <<"F", "F">>,
       autocorrelation |-> TRUE, name |-> "shear_cl",
       prefactor_type |-> <<"", "">>, has_rsd |-> FALSE,
       cls |-> "Spectrum"],
    FastDensityShearIA |->
      [power_3d_type |-> "MatterPower3D", kernel_types |-> <<"N", "F">>,
       autocorrelation |-> FALSE, name |-> "galaxy_shear_cl",
       prefactor_type |-> <<"", "">>, has_rsd |-> FALSE,
       cls |-> "Spectrum"],
    LingalLingal |->
      [power_3d_type |-> "MatterPower3D", kernel_types |-> <<"N", "N">>,
       autocorrelation |-> TRUE, name |-> "galaxy_cl",
       prefactor_type |-> <<None, None>>, has_rsd |-> TRUE,
       cls |-> "LingalLingalSpectrum"] ]

\* the kinds whose option may be present in the configurations explored
KindsSampled == {"ShearShear", "PositionShear", "LingalLingal", "CmbkappaCmbkappa"}


(* ------------------------------ helpers ------------------------------- *)
\* the orderings in which a Python set with elements S may be iterated
Orderings(S) ==
  {o \in [1..Cardinality(S) -> S] : \A x, y \in 1..Cardinality(S) : o[x] = o[y] => x = y}

\* built counts the constructions of the object (TomoNzKernel.from_block)
NoKernel == [loaded |-> FALSE, nbin |-> 0, N |-> FALSE, W |-> FALSE, run |-> 0,
             built |-> 0]
NoPower == [loaded |-> FALSE, exact |-> FALSE, run |-> 0]
NoBias == [prepared |-> FALSE, a |-> << >>, b |-> << >>]
EmptyBlock == [x \in {} |-> 0]

PowerTypes == {SpectrumType[kd].power_3d_type : kd \in DOMAIN SpectrumType}
PowerKeys == PowerTypes \X Suffixes
\* class attribute lin_section of the Power3D subclasses
HasLinSection(powertype) == powertype \in {"MatterPower3D", "GalaxyPower3D"}

(* --------------------------- the variables ---------------------------- *)
VARIABLES
  pc,                     \* position: "setup", "idle", or a stage of execute
  fatal_errors,           \* option fatal_errors
  do_exact_option_names,  \* option do_exact, split into option names
  req_spectra,            \* list of the requested Spectrum objects
  req_kernel_keys,        \* set of (kernel_type, sample_name)
  req_power_options,      \* set of (power_3d_type, suffix, do_exact)
  do_exact_section_names, \* list of section names computed in exact mode
  kernels,                \* self.kernels: sample name -> kernel object
  power,                  \* self.power: power key -> Power3D object
  outputs,                \* self.outputs
  lensing_prefactor,      \* self.lensing_prefactor
  bias,                   \* per requested Spectrum: bias_vals_a, bias_vals_b
  run,                    \* number of the execute call (its block)
  k,                      \* index in req_spectra of the next spectrum
  block,                  \* values written to this run's block
  calls,                  \* compute calls of this run: <<spectrum, bin1, bin2>>
  events,                 \* stages this run has completed
  pending,                \* what execute is about to leave with
  lastExit,               \* how the last finished execute left
  limber_ell_start,       \* option limber_ell_start
  n_ell_exact,            \* option n_ell_exact, then the length of ell_exact
  ell_exact,              \* the exact multipole grid (empty: not built)
  ell_limber,             \* the Limber multipole grid
  n_ell_exact_option,     \* history: n_ell_exact as configured
  prepared,               \* history: spectra whose bin loop this run entered
  options,                \* history: the option values read by setup
  option_kinds,           \* the correlation options the configuration may set
  do_rsd,                 \* option do_rsd
  exact_kwargs,           \* self.exact_kwargs
  distance,               \* the distance table load_distance_splines keeps
  quadrature              \* the arguments last handed to the integration code

vars == <<pc, fatal_errors, do_exact_option_names, req_spectra, req_kernel_keys,
          req_power_options, do_exact_section_names, kernels, power, outputs,
          lensing_prefactor, bias, run, k, block, calls, events, pending,
          lastExit, limber_ell_start, n_ell_exact, ell_exact, ell_limber,
          n_ell_exact_option, prepared, options, option_kinds, do_rsd,
          exact_kwargs, distance, quadrature>>



setupVars == <<fatal_errors, do_exact_option_names, req_spectra, req_kernel_keys,
               req_power_options, do_exact_section_names, limber_ell_start,
               n_ell_exact, ell_exact, ell_limber, n_ell_exact_option, options,
               option_kinds, do_rsd>>

numericVars == <<distance, quadrature>>

NoExit == [status |-> "none", value |-> "none", stage |-> "none", cause |-> "none"]

\* an execute that turns every exception into the status 1
Leave_as_status(status, value, stage, cause) ==
  [status |-> "returned", value |-> IF status = "raised" THEN "1" ELSE value,
   stage |-> stage, cause |-> cause]

\* how execute leaves: status "returned" with the value, or "raised" with the
\* exception; cause is the exception that ended the stage
Leave(status, value, stage, cause) ==
  [status |-> status, value |-> value, stage |-> stage, cause |-> cause]

(* ---------------------- Spectrum (lines 194-487) ---------------------- *)
\* Spectrum.__init__: the section name is name, or name_savename
section_name(kind, save_name) == <<SpectrumType[kind].name, save_name>>

NewSpectrum(kind, sample_a, sample_b, power_key, save_name) ==
  [kind |-> kind, sample_a |-> sample_a, sample_b |-> sample_b,
   power_key |-> power_key, save_name |-> save_name,
   section_name |-> section_name(kind, save_name)]

is_autocorrelation(s) ==
  SpectrumType[s.kind].autocorrelation /\ s.sample_a = s.sample_b

(* ------------------- parse_requested_spectra -------------------------- *)
\* (tuples are indexed from 1 here: kernel_types[1] is Python's kernel_types[0])
\* the second kernel key as the code builds it (line 974): from the FIRST
\* kernel type and the FIRST sample name
kernel_key_b(kind, sample_name_a, sample_name_b) ==
  <<SpectrumType[kind].kernel_types[1], sample_name_a>>

\* the exact-mode branch: drop (key, False) if present, record the section
ExactPowerOptions(opts, power_key) ==
  (opts \ {<<power_key[1], power_key[2], FALSE>>})
     \cup {<<power_key[1], power_key[2], TRUE>>}

LimberPowerOptions(opts, power_key) ==
  opts \cup {<<power_key[1], power_key[2], FALSE>>}

\* body of the loop over the pairs of one option value (lines 945-1003)
AddSpectrum(st, kind, e) ==
  LET kernel_key_a == <<SpectrumType[kind].kernel_types[1], e.sample_a>>
      power_key == <<SpectrumType[kind].power_3d_type, e.power_suffix>>
      s == NewSpectrum(kind, e.sample_a, e.sample_b, power_key, e.save_name)
      exact == kind \in st.do_exact_option_names
  IN [st EXCEPT
        !.req_kernel_keys = @ \cup {kernel_key_a,
                                    kernel_key_b(kind, e.sample_a, e.sample_b)},
        !.req_spectra = Append(@, s),
        !.req_power_options = IF exact THEN ExactPowerOptions(@, power_key)
                                       ELSE LimberPowerOptions(@, power_key),
        !.do_exact_section_names = IF exact THEN @ \cup {s.section_name} ELSE @]

RECURSIVE AddSpectra(_, _, _, _)
AddSpectra(st, kind, values, p) ==
  IF p > Len(values) THEN st
  ELSE AddSpectra(AddSpectrum(st, kind, values[p]), kind, values, p + 1)

OptionValues(n) ==
  UNION {[1..m -> [sample_a : Samples, sample_b : Samples,
                    power_suffix : Suffixes, save_name : SaveNames]] : m \in 1..n}

KindsParsed == {req_spectra[x].kind : x \in 1..Len(req_spectra)}

(* An option value is a string, held as the sequence of its characters, or  *)
(* a value of another type (the ini file's T, a number).                    *)
StringValue(chars) == [is_string |-> TRUE, chars |-> chars]
NotAString == [is_string |-> FALSE, chars |-> << >>]

\* the text of a list of sample pairs: tokens a-b[:suffix][:save_name]
\* separated by one blank (lines 926-931)
FormatToken(e) ==
  <<e.sample_a, "-", e.sample_b>>
    \o (IF e.power_suffix # "" THEN <<":", e.power_suffix>> ELSE << >>)
    \o (IF e.save_name # "" THEN <<":", e.save_name>> ELSE << >>)

RECURSIVE FormatValue(_, _)
FormatValue(values, p) ==
  IF p > Len(values) THEN << >>
  ELSE (IF p > 1 THEN <<" ">> ELSE << >>) \o FormatToken(values[p])
         \o FormatValue(values, p + 1)

\* option values that parse_requested_spectra refuses
MalformedValues ==
  {NotAString,
   StringValue(<< >>),
   StringValue(<<" ">>),
   StringValue(<<"a">>),
   StringValue(<<"a", "-", "b", " ", "a">>)}

\* the option values explored when at most n more pairs can be requested
RawValues(n) ==
  {StringValue(FormatValue(v, 1)) :
     v \in {w \in OptionValues(n) :
              \A x \in 1..Len(w) : <<w[x].sample_a, w[x].sample_b>> \in SamplePairs}}
  \cup MalformedValues

RECURSIVE Str(_)
Str(chars) == IF chars = << >> THEN "" ELSE chars[1] \o Str(Tail(chars))

\* str.strip()
RECURSIVE lstrip(_)
lstrip(chars) ==
  IF chars # << >> /\ Head(chars) = " " THEN lstrip(Tail(chars)) ELSE chars

RECURSIVE rstrip(_)
rstrip(chars) ==
  IF chars # << >> /\ chars[Len(chars)] = " "
  THEN rstrip(SubSeq(chars, 1, Len(chars) - 1)) ELSE chars

strip(chars) == rstrip(lstrip(chars))

\* str.split(): the maximal runs of non-blank characters; cur is the run
\* being read
RECURSIVE split(_, _)
split(chars, cur) ==
  IF chars = << >> THEN (IF cur = << >> THEN << >> ELSE <<cur>>)
  ELSE IF Head(chars) = " "
  THEN (IF cur = << >> THEN << >> ELSE <<cur>>) \o split(Tail(chars), << >>)
  ELSE split(Tail(chars), Append(cur, Head(chars)))

Contains(chars, c) == \E x \in 1..Len(chars) : chars[x] = c

\* str.split(sep, 1): one part when sep is absent, else the parts before
\* and after its first occurrence
split_once(chars, sep) ==
  IF ~Contains(chars, sep) THEN <<chars>>
  ELSE LET at == CHOOSE x \in 1..Len(chars) :
                   chars[x] = sep /\ \A y \in 1..(x - 1) : chars[y] # sep
       IN <<SubSeq(chars, 1, at - 1), SubSeq(chars, at + 1, Len(chars))>>

NoPair == [ok |-> FALSE, sample_a |-> "", sample_b |-> "", power_suffix |-> "",
           save_name |-> ""]

\* a reading of the token that takes a lone name for both samples
parse_token_lenient(token) ==
  LET parts == split_once(token, "-")
  IN [ok |-> TRUE, sample_a |-> Str(strip(parts[1])),
      sample_b |-> Str(strip(parts[Len(parts)])), power_suffix |-> "",
      save_name |-> ""]

\* one token of the option value (lines 946-972); unpacking the result of
\* split('-', 1) into two names raises ValueError when there is one part
parse_token(token) ==
  LET parts == split_once(token, "-")
  IN IF Len(parts) # 2 THEN NoPair
     ELSE
       LET b0 == parts[2]
           colon == Contains(b0, ":")
           p2 == split_once(b0, ":")
           rest == IF colon THEN p2[2] ELSE << >>
           colon2 == Contains(rest, ":")
           p3 == split_once(rest, ":")
       IN [ok |-> TRUE,
           sample_a |-> Str(strip(parts[1])),
           sample_b |-> Str(strip(IF colon THEN p2[1] ELSE b0)),
           power_suffix |-> IF colon2 THEN Str(<<"_">> \o p3[1]) ELSE "",
           save_name |-> Str(IF colon2 THEN p3[2] ELSE rest)]

\* lines 933-947: the checks on the value, then its tokens
parse_value(value) ==
  IF ~value.is_string THEN [ok |-> FALSE, values |-> << >>]
  ELSE IF strip(value.chars) = << >> THEN [ok |-> FALSE, values |-> << >>]
  ELSE LET tokens == split(strip(value.chars), << >>)
           parsed == [x \in 1..Len(tokens) |-> parse_token(tokens[x])]
       IN [ok |-> \A x \in 1..Len(parsed) : parsed[x].ok, values |-> parsed]

\* one pass of the loop over self.spectrumType for a kind whose option is
\* set.  A value that is refused raises out of __init__: no
\* SpectrumCalculator exists, and nothing can be executed.
ParseOption ==
  /\ pc = "setup"
  /\ \E kind \in option_kinds \ KindsParsed :
       \E value \in RawValues(MaxReq - Len(req_spectra)) :
         LET res == parse_value(value)
             st == AddSpectra(
                   [do_exact_option_names |-> do_exact_option_names,
                    req_spectra |-> req_spectra,
                    req_kernel_keys |-> req_kernel_keys,
                    req_power_options |-> req_power_options,
                    do_exact_section_names |-> do_exact_section_names],
                   kind, res.values, 1)
         IN /\ options' = options \cup {[kind |-> kind, value |-> value]}
            /\ IF res.ok
               THEN /\ req_spectra' = st.req_spectra
                    /\ req_kernel_keys' = st.req_kernel_keys
                    /\ req_power_options' = st.req_power_options
                    /\ do_exact_section_names' = st.do_exact_section_names
                    /\ UNCHANGED <<pc, lastExit>>
               ELSE /\ pc' = "failed"
                    /\ lastExit' = Leave("raised", "ValueError", "setup", "ValueError")
                    /\ UNCHANGED <<req_spectra, req_kernel_keys, req_power_options,
                                   do_exact_section_names>>
  /\ bias' = [x \in 1..Len(req_spectra') |-> NoBias]
  /\ UNCHANGED <<fatal_errors, do_exact_option_names, kernels, power, outputs,
                 lensing_prefactor, run, k, block, calls, events, pending,
                 limber_ell_start, n_ell_exact, ell_exact, ell_limber,
                 n_ell_exact_option, prepared, option_kinds, do_rsd, exact_kwargs,
                 numericVars>>

\* the end of __init__ (lines 884-886): the caches start empty
FinishInit ==
  /\ pc = "setup"
  /\ pc' = "idle"
  /\ kernels' = [s \in Samples |-> NoKernel]
  /\ power' = [pk \in PowerKeys |-> NoPower]
  /\ outputs' = {}
  /\ UNCHANGED <<setupVars, numericVars, exact_kwargs, lensing_prefactor, bias, run, k, block, calls, events,
                 pending, lastExit, prepared>>

(* ------------------------------ execute ------------------------------- *)
\* execute begins: a new block, then load_distance_splines (lines 1018-1042),
\* which fails when the block lacks the distance table
ExecuteStart ==
  /\ pc = "idle"
  /\ run < MaxRuns
  /\ run' = run + 1
  /\ block' = EmptyBlock
  /\ calls' = << >>
  /\ prepared' = {}
  /\ k' = 0
  /\ \E ok \in BOOLEAN :
       IF ok
       THEN /\ pc' = "load_kernels"
            /\ events' = {"distance"}
            /\ pending' = NoExit
       ELSE /\ pc' = "finally"
            /\ events' = {}
            /\ pending' = Leave("raised", "BlockError", "load_distance_splines", "BlockError")
  /\ lastExit' = NoExit
  /\ UNCHANGED <<setupVars, numericVars, exact_kwargs, kernels, power, outputs, lensing_prefactor, bias>>

\* a load_kernels that loads the kernel of every sample, required or not
load_kernels_every_sample(ord, p, kern, ch, r) ==
  [kernels |-> [sm \in Samples |->
                  [loaded |-> TRUE, nbin |-> ch.nbin[sm], N |-> TRUE, W |-> TRUE,
                   run |-> r, built |-> 1]],
   exc |-> "none"]

\* a load_kernels that passes over a kernel type it does not know
RECURSIVE load_kernels_skips_unknown(_, _, _, _, _)
load_kernels_skips_unknown(ord, p, kern, ch, r) ==
  IF p > Len(ord) THEN [kernels |-> kern, exc |-> "none"]
  ELSE
    LET kernel_type == ord[p][1]
        sample_name == ord[p][2]
        k1 == IF kern[sample_name].loaded THEN kern
              ELSE [kern EXCEPT ![sample_name] =
                      [loaded |-> TRUE, nbin |-> ch.nbin[sample_name],
                       N |-> FALSE, W |-> FALSE, run |-> r,
                       built |-> kern[sample_name].built + 1]]
    IN IF ch.fail = p THEN [kernels |-> kern, exc |-> ch.exc]
       ELSE load_kernels_skips_unknown(ord, p + 1,
              IF kernel_type = "N" THEN [k1 EXCEPT ![sample_name].N = TRUE]
              ELSE IF kernel_type = "W" THEN [k1 EXCEPT ![sample_name].W = TRUE]
              ELSE k1,
              ch, r)

\* a load_kernels that constructs the kernel object anew for every key
RECURSIVE load_kernels_rebuilds(_, _, _, _, _)
load_kernels_rebuilds(ord, p, kern, ch, r) ==
  IF p > Len(ord) THEN [kernels |-> kern, exc |-> "none"]
  ELSE
    LET kernel_type == ord[p][1]
        sample_name == ord[p][2]
        k1 == [kern EXCEPT ![sample_name] =
                 [loaded |-> TRUE, nbin |-> ch.nbin[sample_name],
                  N |-> kernel_type = "N", W |-> kernel_type = "W", run |-> r,
                  built |-> kern[sample_name].built + 1]]
    IN IF ch.fail = p THEN [kernels |-> kern, exc |-> ch.exc]
       ELSE IF kernel_type \in {"N", "W"}
       THEN load_kernels_rebuilds(ord, p + 1, k1, ch, r)
       ELSE [kernels |-> k1, exc |-> "ValueError"]

\* load_kernels (lines 1044-1062), keys taken in the order ord.  ch names the
\* behaviour of the external kernel code in this run: the nbin of each sample,
\* and the key (if any) at which from_block raises BlockError or at which the
\* spline construction raises NullSplineError.
RECURSIVE load_kernels(_, _, _, _, _)
load_kernels(ord, p, kern, ch, r) ==
  IF p > Len(ord) THEN [kernels |-> kern, exc |-> "none"]
  ELSE
    LET kernel_type == ord[p][1]
        sample_name == ord[p][2]
    IN IF ~kern[sample_name].loaded /\ ch.fail = p /\ ch.exc = "BlockError"
       THEN [kernels |-> kern, exc |-> "BlockError"]
       ELSE
         LET k1 == IF kern[sample_name].loaded THEN kern
                   ELSE [kern EXCEPT ![sample_name] =
                           [loaded |-> TRUE, nbin |-> ch.nbin[sample_name],
                            N |-> FALSE, W |-> FALSE, run |-> r,
                            built |-> kern[sample_name].built + 1]]
         IN IF kernel_type \in {"N", "W"}
            THEN IF ch.fail = p /\ ch.exc = "NullSplineError"
                 THEN [kernels |-> k1, exc |-> "NullSplineError"]
                 ELSE load_kernels(ord, p + 1,
                        IF kernel_type = "N"
                        THEN [k1 EXCEPT ![sample_name].N = TRUE]
                        ELSE [k1 EXCEPT ![sample_name].W = TRUE],
                        ch, r)
            ELSE [kernels |-> k1, exc |-> "ValueError"]

\* a handler that swallows the NullSplineError whatever fatal_errors says
KernelFailure_never_fatal(exc, fatal) ==
  IF exc = "NullSplineError"
  THEN Leave("returned", "1", "load_kernels", exc)
  ELSE Leave("raised", exc, "load_kernels", exc)

\* the handler of execute around load_kernels (lines 1142-1154)
KernelFailure(exc, fatal) ==
  IF exc = "NullSplineError" /\ ~fatal
  THEN Leave("returned", "1", "load_kernels", exc)
  ELSE Leave("raised", exc, "load_kernels", exc)

LoadKernels ==
  /\ pc = "load_kernels"
  /\ \E ord \in Orderings(req_kernel_keys) :
     \E nb \in [Samples -> 0..MaxBins] :
     \E fail \in 0..Len(ord) :
     \E fexc \in {"BlockError", "NullSplineError"} :
       LET res == load_kernels(ord, 1, kernels,
                               [nbin |-> nb, fail |-> fail, exc |-> fexc], run)
       IN /\ kernels' = res.kernels
          /\ IF res.exc = "none"
             THEN /\ pc' = "load_power"
                  /\ events' = events \cup {"kernels"}
                  /\ pending' = pending
             ELSE /\ pc' = "finally"
                  /\ events' = events
                  /\ pending' = KernelFailure(res.exc, fatal_errors)
  /\ UNCHANGED <<setupVars, numericVars, exact_kwargs, power, outputs, lensing_prefactor, bias, run, k, block,
                 calls, lastExit, prepared>>

\* a load_power that puts the Power3D in the cache before its splines are set
RECURSIVE load_power_caches_first(_, _, _, _, _)
load_power_caches_first(ord, p, pw, ch, r) ==
  IF p > Len(ord) THEN [power |-> pw, exc |-> "none"]
  ELSE
    LET powertype == ord[p][1]
        suffix == ord[p][2]
        do_exact == ord[p][3]
        stored == [pw EXCEPT ![<<powertype, suffix>>] =
                     [loaded |-> TRUE, exact |-> do_exact, run |-> r]]
    IN IF ch.fail = p /\ ch.exc = "BlockError"
       THEN [power |-> pw, exc |-> "BlockError"]
       ELSE IF do_exact /\ ~HasLinSection(powertype)
       THEN [power |-> stored, exc |-> "BlockError"]
       ELSE IF do_exact /\ ch.fail = p /\ ch.exc = "AssertionError"
       THEN [power |-> stored, exc |-> "AssertionError"]
       ELSE load_power_caches_first(ord, p + 1, stored, ch, r)

\* load_power (lines 1064-1076), options taken in the order ord.  fail names
\* the option (if any) whose tables the block lacks (BlockError) or whose
\* linear table has another redshift grid (AssertionError, line 139).  A
\* Power3D class without lin_section has lin_section_name None, and reading
\* that section fails.
RECURSIVE load_power(_, _, _, _, _)
load_power(ord, p, pw, ch, r) ==
  IF p > Len(ord) THEN [power |-> pw, exc |-> "none"]
  ELSE
    LET powertype == ord[p][1]
        suffix == ord[p][2]
        do_exact == ord[p][3]
    IN IF ch.fail = p /\ ch.exc = "BlockError"
       THEN [power |-> pw, exc |-> "BlockError"]
       ELSE IF do_exact /\ ~HasLinSection(powertype)
       THEN [power |-> pw, exc |-> "BlockError"]
       ELSE IF do_exact /\ ch.fail = p /\ ch.exc = "AssertionError"
       THEN [power |-> pw, exc |-> "AssertionError"]
       ELSE load_power(ord, p + 1,
              [pw EXCEPT ![<<powertype, suffix>>] =
                 [loaded |-> TRUE, exact |-> do_exact, run |-> r]],
              ch, r)

LoadPower ==
  /\ pc = "load_power"
  /\ \E ord \in Orderings(req_power_options) :
     \E fail \in 0..Len(ord) :
     \E fexc \in {"BlockError", "AssertionError"} :
       LET res == load_power(ord, 1, power, [fail |-> fail, exc |-> fexc], run)
       IN /\ power' = res.power
          /\ IF res.exc = "none"
             THEN /\ pc' = "load_lensing_prefactor"
                  /\ events' = events \cup {"power"}
                  /\ pending' = pending
             ELSE /\ pc' = "finally"
                  /\ events' = events
                  /\ pending' = Leave("raised", res.exc, "load_power", res.exc)
  /\ UNCHANGED <<setupVars, numericVars, exact_kwargs, kernels, outputs, lensing_prefactor, bias, run, k, block,
                 calls, lastExit, prepared>>

\* load_lensing_prefactor (lines 1078-1079, 188-192): reads omega_m
LoadLensingPrefactor ==
  /\ pc = "load_lensing_prefactor"
  /\ \E ok \in BOOLEAN :
       IF ok
       THEN /\ lensing_prefactor' = <<"value", run>>
            /\ pc' = "spectra"
            /\ k' = 1
            /\ events' = events \cup {"prefactor"}
            /\ pending' = pending
       ELSE /\ lensing_prefactor' = lensing_prefactor
            /\ pc' = "finally"
            /\ k' = k
            /\ events' = events
            /\ pending' = Leave("raised", "BlockError", "load_lensing_prefactor", "BlockError")
  /\ UNCHANGED <<setupVars, numericVars, exact_kwargs, kernels, power, outputs, bias, run, block, calls, lastExit,
                 prepared>>


(* ------------------- Spectrum.compute and its parts -------------------- *)
\* the attributes a Spectrum object resolves: those of class Spectrum
\* (lines 194-487), of the kind's nested class, and of the instance
SpectrumAttributes ==
  {"autocorrelation", "kernel_types", "name", "prefactor_type", "nbins",
   "is_autocorrelation", "option_name", "get_prefactor",
   "get_magnifaction_prefactor", "compute_limber", "compute_exact", "compute",
   "get_power_spline", "get_power_sublin", "get_lin_power_growth", "clean_power",
   "prep_spectrum", "power_3d_type", "has_rsd", "source", "sample_a", "sample_b",
   "power_key", "save_name", "section_name"}

Raise(exc) == [exc |-> exc, ell |-> << >>, c_ell |-> << >>]

\* kernel.get_kernel_spline(kernel_type, bin): the spline exists once
\* load_kernels has set the splines of that type on the sample's kernel
HasKernelSpline(kern, sample, kernel_type) ==
  /\ kern[sample].loaded
  /\ \/ kernel_type = "N" /\ kern[sample].N
     \/ kernel_type = "W" /\ kern[sample].W

\* compute_limber (lines 282-337).  src is the SpectrumCalculator state the
\* Spectrum reads; ext says whether the external quadrature raises.
compute_limber(s, src, ell, bin1, bin2, ext) ==
  IF ~src.power[s.power_key].loaded THEN Raise("KeyError")
  ELSE IF ~HasKernelSpline(src.kernels, s.sample_a, SpectrumType[s.kind].kernel_types[1])
  THEN Raise("KeyError")
  ELSE IF ~HasKernelSpline(src.kernels, s.sample_b, SpectrumType[s.kind].kernel_types[2])
  THEN Raise("KeyError")
  ELSE IF ext THEN Raise("ExternalError")
  ELSE IF "prefactor" \notin SpectrumAttributes THEN Raise("AttributeError")
  ELSE [exc |-> "none", ell |-> ell,
        c_ell |-> [x \in 1..Len(ell) |-> <<"limber", ell[x], bin1, bin2>>]]

\* the keyword do_rsd as compute_exact sees it: the value passed, or the
\* default of the method (False at line 340, True at line 732)
keyword_do_rsd(s, kwargs) ==
  IF "do_rsd" \in DOMAIN kwargs THEN kwargs["do_rsd"]
  ELSE SpectrumType[s.kind].cls = "LingalLingalSpectrum"

\* compute_exact of class Spectrum (lines 339-420) and of LingalLingalSpectrum
\* (lines 730-780)
compute_exact(s, src, ell, bin1, bin2, kwargs, ext) ==
  IF SpectrumType[s.kind].cls = "Spectrum" /\ keyword_do_rsd(s, kwargs)
  THEN Raise("AttributeError")
  ELSE IF ~HasKernelSpline(src.kernels, s.sample_a, SpectrumType[s.kind].kernel_types[1])
  THEN Raise("KeyError")
  ELSE IF ~HasKernelSpline(src.kernels, s.sample_b, SpectrumType[s.kind].kernel_types[2])
  THEN Raise("KeyError")
  ELSE IF ~src.power[s.power_key].loaded THEN Raise("KeyError")
  ELSE IF ext THEN Raise("ExternalError")
  ELSE IF "prefactor" \notin SpectrumAttributes THEN Raise("AttributeError")
  ELSE [exc |-> "none", ell |-> ell,
        c_ell |-> [x \in 1..Len(ell) |-> <<"exact", ell[x], bin1, bin2>>]]

Last(seq) == seq[Len(seq)]

\* a mask that also passes the entries equal to the bound
RECURSIVE Mask_keeps_bound(_, _, _, _)
Mask_keeps_bound(seq, ell, bound, p) ==
  IF p > Len(ell) THEN << >>
  ELSE (IF ell[p] >= bound THEN <<seq[p]>> ELSE << >>)
         \o Mask_keeps_bound(seq, ell, bound, p + 1)

\* the entries of seq at the positions where the entry of ell is above bound
RECURSIVE Mask(_, _, _, _)
Mask(seq, ell, bound, p) ==
  IF p > Len(ell) THEN << >>
  ELSE (IF ell[p] > bound THEN <<seq[p]>> ELSE << >>) \o Mask(seq, ell, bound, p + 1)

\* line 453: ell_limber[ell_limber >= ell_exact[-1]]
cut_ell_limber(ell_lim, ell_ex) ==
  LET AtOrAbove(l) == l >= Last(ell_ex)
  IN SelectSeq(ell_lim, AtOrAbove)

\* lines 465-467: seq[use_limber], use_limber = ell_limber > ell_exact[-1]
use_limber(seq, ell_lim, ell_ex) == Mask(seq, ell_lim, Last(ell_ex), 1)

\* Spectrum.compute (lines 422-469).  has_exact: ell_exact is not None.
compute(s, src, ell_lim, bin1, bin2, has_exact, ell_ex, kwargs, ext) ==
  LET cut == IF has_exact THEN cut_ell_limber(ell_lim, ell_ex) ELSE ell_lim
      cl_limber == compute_limber(s, src, cut, bin1, bin2, ext)
  IN IF cl_limber.exc # "none" THEN cl_limber
     ELSE IF ~has_exact THEN cl_limber
     ELSE LET cl_exact == compute_exact(s, src, ell_ex, bin1, bin2, kwargs, ext)
          IN IF cl_exact.exc # "none" THEN cl_exact
             ELSE [exc |-> "none",
                   ell |-> ell_ex \o use_limber(cut, cut, ell_ex),
                   c_ell |-> cl_exact.c_ell \o use_limber(cl_limber.c_ell, cut, ell_ex)]

(* --------------------- the multipole grids (__init__) ------------------ *)
\* defaults of the options limber_ell_start (line 810) and n_ell_exact (line 848)
DefaultLimberEllStart == 300
DefaultNEllExact == 50
\* option do_rsd defaults to False (line 867)
DefaultDoRsd == FALSE

\* self.exact_kwargs (lines 868-873): the four keywords of the exact
\* calculation when do_exact names an option, None otherwise
ExactKwargsOption ==
  [kw \in {"sig_over_dchi", "dlogchi", "chi_pad_lower", "chi_pad_upper"} |-> "option"]
NoKwargs == [kw \in {} |-> "option"]

\* the Limber grid of the runs explored: logspace over whole decades,
\* ell_min = 10^EllMinExp, ell_max = 10^EllMaxExp, one point per decade
EllMinExp == 0
EllMaxExp == 3

RECURSIVE Pow10(_)
Pow10(e) == IF e = 0 THEN 1 ELSE 10 * Pow10(e - 1)

\* np.logspace(log10(ell_min), log10(ell_max), n_ell) (line 841)
logspace(emin, emax) == [x \in 1..(emax - emin + 1) |-> Pow10(emin + x - 1)]

\* ceil(a / b) for b > 0
Ceil(a, b) == -((-a) \div b)

\* np.ceil(np.linspace(1., stop, num)) (line 862); num = 1 gives [1.]
ceil_linspace(stop, num) ==
  IF num = 1 THEN <<1>>
  ELSE [x \in 1..num |-> 1 + Ceil((x - 1) * (stop - 1), num - 1)]

SetMin(S) == CHOOSE x \in S : \A y \in S : x <= y

\* the values left as they are, repeated entries included
unique_keeps_repeats(values) == values

\* values[np.unique(values, return_index=True)[1]] (lines 864-865): the
\* distinct values in ascending order
RECURSIVE Ascending(_)
Ascending(S) == IF S = {} THEN << >> ELSE <<SetMin(S)>> \o Ascending(S \ {SetMin(S)})

unique(values) == Ascending({values[x] : x \in 1..Len(values)})

\* lines 862-865
exact_grid(exact_ell_max, n) == unique(<<0>> \o ceil_linspace(exact_ell_max, n - 1))

\* lines 856-873 of __init__: the exact grid is built when do_exact names
\* at least one option
SetExactGrid ==
  /\ pc = "init"
  /\ pc' = "setup"
  /\ IF do_exact_option_names # {}
     THEN /\ ell_exact' = exact_grid(limber_ell_start, n_ell_exact)
          /\ n_ell_exact' = Len(ell_exact')
          /\ exact_kwargs' = ExactKwargsOption
     ELSE /\ exact_kwargs' = NoKwargs
          /\ UNCHANGED <<ell_exact, n_ell_exact>>
  /\ UNCHANGED <<fatal_errors, do_exact_option_names, req_spectra, req_kernel_keys,
                 req_power_options, do_exact_section_names, kernels, power, outputs,
                 lensing_prefactor, bias, run, k, block, calls, events, pending,
                 lastExit, limber_ell_start, ell_limber, n_ell_exact_option, prepared,
                 options, option_kinds, do_rsd, numericVars>>

(* -------------------------- compute_spectrum --------------------------- *)
Put(b, section, key, value) == (<<section, key>> :> value) @@ b

\* the bin pairs of the two loops (lines 1101-1107), in loop order
RECURSIVE PairRow(_, _, _)
PairRow(i, j, jmax) ==
  IF j > jmax THEN << >> ELSE <<(<<i, j>>)>> \o PairRow(i, j + 1, jmax)

RECURSIVE BinPairs(_, _, _, _)
BinPairs(i, na, nb, auto) ==
  IF i > na THEN << >>
  ELSE PairRow(i, 1, IF auto THEN i ELSE nb) \o BinPairs(i + 1, na, nb, auto)

BiasTable(sample, nbin, r) == [x \in 1..nbin |-> <<"bias", sample, x, r>>]

\* a compute_spectrum that leaves the bias tables as they were
prep_spectrum_not_called(s, kern, old, r) == old

\* a prep_spectrum that keeps tables it already holds
prep_spectrum_keeps_old(s, kern, old, r) ==
  IF SpectrumType[s.kind].cls = "Spectrum" \/ old.prepared THEN old
  ELSE [prepared |-> TRUE,
        a |-> BiasTable(s.sample_a, kern[s.sample_a].nbin, r),
        b |-> BiasTable(s.sample_b, kern[s.sample_b].nbin, r)]

\* prep_spectrum: nothing for class Spectrum (lines 485-487); the bias tables
\* for LingalLingalSpectrum (lines 782-796)
prep_spectrum(s, kern, old, r) ==
  IF SpectrumType[s.kind].cls = "Spectrum" THEN old
  ELSE
    LET a == IF SpectrumType[s.kind].kernel_types[1] = "N"
             THEN BiasTable(s.sample_a, kern[s.sample_a].nbin, r) ELSE << >>
        b == IF SpectrumType[s.kind].kernel_types[2] = "N"
             THEN IF s.sample_b = s.sample_a THEN a
                  ELSE BiasTable(s.sample_b, kern[s.sample_b].nbin, r)
             ELSE << >>
    IN [prepared |-> TRUE, a |-> a, b |-> b]

\* an ExactKwargs that works on self.exact_kwargs itself, not on a copy
ExactKwargs_no_copy(shared, s, rsd) ==
  LET d == IF SpectrumType[s.kind].has_rsd THEN ("do_rsd" :> rsd) @@ shared ELSE shared
  IN [shared |-> d, passed |-> d]

\* the keyword arguments of the exact calculation (lines 1110-1112): a copy
\* of self.exact_kwargs, with do_rsd for a kind with has_rsd; shared is
\* self.exact_kwargs after the lines, passed the dictionary handed to compute
ExactKwargs(shared, s, rsd) ==
  [shared |-> shared,
   passed |-> IF SpectrumType[s.kind].has_rsd THEN ("do_rsd" :> rsd) @@ shared
              ELSE shared]

\* the loop over the bin pairs (lines 1101-1121) from pair number p on;
\* st holds the block, the compute calls so far and the bias tables the
\* Spectrum holds after prep_spectrum (line 1097) and self.exact_kwargs;
\* failAt is the call at which the external quadrature raises
RECURSIVE PairLoop(_, _, _, _, _, _, _)
PairLoop(s, idx, src, pairs, p, st, failAt) ==
  IF p > Len(pairs) THEN st
  ELSE
    LET bin1 == pairs[p][1]
        bin2 == pairs[p][2]
        exact == s.section_name \in src.do_exact_section_names
        kw == IF exact THEN ExactKwargs(st.exact_kwargs, s, src.do_rsd)
              ELSE [shared |-> st.exact_kwargs, passed |-> NoKwargs]
        res == compute(s, src, src.ell_limber, bin1, bin2, exact, src.ell_exact,
                       kw.passed, failAt = p)
        called == Append(st.calls,
                    [spectrum |-> idx, bin1 |-> bin1, bin2 |-> bin2,
                     exact |-> exact, exc |-> res.exc, ell |-> res.ell,
                     c_ell |-> res.c_ell, bias |-> st.bias,
                     exact_kwargs |-> kw.passed])
    IN IF res.exc # "none"
       THEN [st EXCEPT !.calls = called, !.exc = res.exc,
                       !.exact_kwargs = kw.shared]
       ELSE PairLoop(s, idx, src, pairs, p + 1,
              [st EXCEPT !.calls = called,
                         !.exact_kwargs = kw.shared,
                         !.block = Put(Put(@, s.section_name, <<"ell", 0, 0>>, res.ell),
                                       s.section_name, <<"bin", bin1, bin2>>, res.c_ell)],
              failAt)

\* the header of the section (lines 1084-1088)
Header(b, s) ==
  Put(Put(Put(Put(b, s.section_name, <<"save_name", 0, 0>>, s.save_name),
              s.section_name, <<"sample_a", 0, 0>>, s.sample_a),
          s.section_name, <<"sample_b", 0, 0>>, s.sample_b),
      s.section_name, <<"sep_name", 0, 0>>, "ell")

\* the bin counts and the flag (lines 1089-1095)
BinCounts(b, s, na, nb) ==
  LET b1 == IF is_autocorrelation(s) THEN Put(b, s.section_name, <<"nbin", 0, 0>>, na)
            ELSE b
  IN Put(Put(Put(b1, s.section_name, <<"nbin_a", 0, 0>>, na),
             s.section_name, <<"nbin_b", 0, 0>>, nb),
         s.section_name, <<"is_auto", 0, 0>>, is_autocorrelation(s))

Source ==
  [kernels |-> kernels, power |-> power, lensing_prefactor |-> lensing_prefactor,
   do_exact_section_names |-> do_exact_section_names, ell_limber |-> ell_limber,
   ell_exact |-> ell_exact, do_rsd |-> do_rsd]

\* compute_spectrum for the k-th requested spectrum (lines 1081-1121), as one
\* pass of the loop of execute (lines 1168-1174)
ComputeSpectrum ==
  /\ pc = "spectra"
  /\ k <= Len(req_spectra)
  /\ LET s == req_spectra[k]
         b0 == Header(block, s)
     IN IF ~kernels[s.sample_a].loaded \/ ~kernels[s.sample_b].loaded
        THEN \* nbins() looks up a kernel that was never loaded
             /\ block' = b0
             /\ pending' = Leave("raised", "KeyError", "compute_spectrum", "KeyError")
             /\ pc' = "finally"
             /\ UNCHANGED <<bias, calls, k, prepared, exact_kwargs>>
        ELSE
          LET na == kernels[s.sample_a].nbin
              nb == kernels[s.sample_b].nbin
              b1 == BinCounts(b0, s, na, nb)
              pairs == BinPairs(1, na, nb, is_autocorrelation(s))
          IN \E bias_ok \in BOOLEAN :
             \E failAt \in 0..Len(pairs) :
               IF ~bias_ok /\ SpectrumType[s.kind].cls = "LingalLingalSpectrum"
               THEN \* the block lacks a bias value
                    /\ block' = b1
                    /\ bias' = [bias EXCEPT ![k] = [prepared |-> TRUE, a |-> << >>,
                                                    b |-> << >>]]
                    /\ pending' = Leave("raised", "BlockError", "compute_spectrum", "BlockError")
                    /\ pc' = "finally"
                    /\ UNCHANGED <<calls, k, prepared, exact_kwargs>>
               ELSE
                 LET st == PairLoop(s, k, Source, pairs, 1,
                                    [block |-> b1, calls |-> calls, exc |-> "none",
                                     bias |-> prep_spectrum(s, kernels, bias[k], run),
                                     exact_kwargs |-> exact_kwargs],
                                    failAt)
                 IN /\ bias' = [bias EXCEPT ![k] = st.bias]
                    /\ exact_kwargs' = st.exact_kwargs
                    /\ prepared' = prepared \cup {[spectrum |-> k, na |-> na, nb |-> nb]}
                    /\ block' = st.block
                    /\ calls' = st.calls
                    /\ IF st.exc = "none"
                       THEN /\ k' = k + 1
                            /\ pc' = pc
                            /\ pending' = pending
                       ELSE /\ k' = k
                            /\ pc' = "finally"
                            /\ pending' = Leave("raised", st.exc, "compute_spectrum", st.exc)
  /\ events' = events \cup {"spectrum"}
  /\ UNCHANGED <<setupVars, numericVars, kernels, power, outputs, lensing_prefactor, run, lastExit>>

\* the loop over req_spectra is done: return 0 (line 1177), through finally
ExecuteReturn ==
  /\ pc = "spectra"
  /\ k > Len(req_spectra)
  /\ pc' = "finally"
  /\ pending' = Leave("returned", "0", "done", "none")
  /\ UNCHANGED <<setupVars, numericVars, exact_kwargs, kernels, power, outputs, lensing_prefactor, bias, run, k,
                 block, calls, events, lastExit, prepared>>

\* a clean that releases nothing
clean_releases_nothing(src) == src

\* a clean that forgets the kernels
clean_keeps_kernels(src) ==
  [src EXCEPT !.power = [pk \in PowerKeys |-> NoPower],
              !.outputs = {},
              !.lensing_prefactor = <<"None", 0>>]

\* clean (lines 1123-1130)
clean(src) ==
  [src EXCEPT !.power = [pk \in PowerKeys |-> NoPower],
              !.kernels = [sm \in Samples |-> NoKernel],
              !.outputs = {},
              !.lensing_prefactor = <<"None", 0>>]

\* the finally clause of execute (lines 1175-1176), then execute leaves
Finally ==
  /\ pc = "finally"
  /\ LET c == clean([power |-> power, kernels |-> kernels, outputs |-> outputs,
                     lensing_prefactor |-> lensing_prefactor])
     IN /\ power' = c.power
        /\ kernels' = c.kernels
        /\ outputs' = c.outputs
        /\ lensing_prefactor' = c.lensing_prefactor
  /\ lastExit' = pending
  /\ pending' = NoExit
  /\ pc' = "idle"
  /\ UNCHANGED <<setupVars, numericVars, exact_kwargs, bias, run, k, block, calls, events, prepared>>

(* ------------------- distances and integration windows ----------------- *)
\* the largest redshift of the distance tables explored, the largest kernel
\* width, and the largest ratio sig_over_dchi
MaxZ == 3
MaxSigma == 2
MaxSigOverDchi == 3

\* a float of the code, kept exact as the fraction num / den, den > 0
Frac(n, d) == [num |-> n, den |-> d]
Same(p, q) == p.num * q.den = q.num * p.den
Less(p, q) == p.num * q.den < q.num * p.den
\* Python's min and max of two values: the first one when they are equal
min(p, q) == IF Less(q, p) THEN q ELSE p
max(p, q) == IF Less(p, q) THEN q ELSE p
\* p / q for q > 0, and p * q
Div(p, q) == Frac(p.num * q.den, p.den * q.num)
Times(p, q) == Frac(p.num * q.num, p.den * q.den)

\* an argument that may be None
NotGiven == [given |-> FALSE, value |-> Frac(0, 1)]
Given(v) == [given |-> TRUE, value |-> v]

\* x[::-1]
Reverse(seq) == [x \in 1..Len(seq) |-> seq[Len(seq) + 1 - x]]

\* the strictly ascending sequences of at least two elements of S
AscendingTables(S) == {Ascending(T) : T \in {U \in SUBSET S : Cardinality(U) >= 2}}

\* the comoving distance and the scale factor the tables explored hold at
\* redshift z
ChiOf(z) == IF z = 0 THEN 0 ELSE IF z = 1 THEN 1000 ELSE IF z = 2 THEN 1700
            ELSE 1700 + 400 * (z - 2)
AOf(z) == Frac(1, 1 + z)

\* the section names.distances of the blocks explored: z ascending or
\* descending, with a and d_m row by row
DistanceTables ==
  {[z |-> zs, a |-> [x \in 1..Len(zs) |-> AOf(zs[x])],
    d_m |-> [x \in 1..Len(zs) |-> Frac(ChiOf(zs[x]), 1)]] :
     zs \in AscendingTables(0..MaxZ) \cup {Reverse(t) : t \in AscendingTables(0..MaxZ)}}

\* the values of h0 explored
H0Values == {Frac(1, 2), Frac(7, 10), Frac(1, 1)}

NoDistance ==
  [loaded |-> FALSE, table |-> [z |-> << >>, a |-> << >>, d_m |-> << >>],
   h0 |-> Frac(1, 1), z |-> << >>, a |-> << >>, chi |-> << >>]

\* a load_distance_splines that puts only z in ascending order
load_distance_splines_reverses_z(table, h0) ==
  [z |-> IF table.z[2] < table.z[1] THEN Reverse(table.z) ELSE table.z,
   a |-> table.a,
   chi |-> [x \in 1..Len(table.d_m) |-> Times(table.d_m[x], h0)]]

\* load_distance_splines (lines 1018-1042): the arrays the splines
\* a_of_chi, chi_of_z and dchidz are built from
load_distance_splines(table, h0) ==
  LET reversed == table.z[2] < table.z[1]
      z_distance == IF reversed THEN Reverse(table.z) ELSE table.z
      a_distance == IF reversed THEN Reverse(table.a) ELSE table.a
      chi_distance == IF reversed THEN Reverse(table.d_m) ELSE table.d_m
  IN [z |-> z_distance, a |-> a_distance,
      chi |-> [x \in 1..Len(chi_distance) |-> Times(chi_distance[x], h0)]]

\* load_distance_splines on one block
LoadDistanceSplines ==
  /\ pc = "numeric"
  /\ pc' = "loaded"
  /\ \E table \in DistanceTables : \E h0 \in H0Values :
       LET res == load_distance_splines(table, h0)
       IN distance' = [loaded |-> TRUE, table |-> table, h0 |-> h0,
                       z |-> res.z, a |-> res.a, chi |-> res.chi]
  /\ UNCHANGED <<setupVars, quadrature, exact_kwargs, kernels, power, outputs,
                 lensing_prefactor, bias, run, k, block, calls, events, pending,
                 lastExit, prepared>>

\* the kernel splines explored: the clipped support and the width sigma
KernelSplines ==
  [xmin_clipped : {Frac(0, 1), Frac(1, 1)},
   xmax_clipped : {Frac(2, 1), Frac(3, 1)},
   sigma : {Frac(x, 1) : x \in 1..MaxSigma}]

\* the values a caller supplies for chimin, chimax and the step
Supplied == {NotGiven, Given(Frac(1, 2))}
SigOverDchiValues == {NotGiven} \cup {Given(Frac(x, 1)) : x \in 2..MaxSigOverDchi}

NoWindow ==
  [exc |-> "none", chimin |-> Frac(0, 1), chimax |-> Frac(0, 1),
   get_dlogchi |-> FALSE, dchi |-> Frac(0, 1)]

NoQuadrature ==
  [fn |-> "none", K1 |-> [xmin_clipped |-> Frac(0, 1), xmax_clipped |-> Frac(0, 1),
                          sigma |-> Frac(0, 1)],
   K2 |-> [xmin_clipped |-> Frac(0, 1), xmax_clipped |-> Frac(0, 1),
           sigma |-> Frac(0, 1)],
   chimin |-> NotGiven, chimax |-> NotGiven, step |-> NotGiven,
   sig_over_dchi |-> NotGiven, args |-> NoWindow]

\* a compute_limber that takes its step from the wider kernel
limber_integral_args_wider(K1, K2, chimin, chimax, dchi, sig_over_dchi) ==
  IF ~dchi.given /\ ~sig_over_dchi.given THEN [NoWindow EXCEPT !.exc = "AssertionError"]
  ELSE [exc |-> "none",
        chimin |-> IF chimin.given THEN chimin.value
                   ELSE max(K1.xmin_clipped, K2.xmin_clipped),
        chimax |-> IF chimax.given THEN chimax.value
                   ELSE min(K1.xmax_clipped, K2.xmax_clipped),
        get_dlogchi |-> FALSE,
        dchi |-> IF dchi.given THEN dchi.value
                 ELSE max(Div(K1.sigma, sig_over_dchi.value),
                          Div(K2.sigma, sig_over_dchi.value))]

\* compute_limber, lines 323-334: chimin, chimax and dchi as handed to
\* limber_integral
limber_integral_args(K1, K2, chimin, chimax, dchi, sig_over_dchi) ==
  IF ~dchi.given /\ ~sig_over_dchi.given THEN [NoWindow EXCEPT !.exc = "AssertionError"]
  ELSE [exc |-> "none",
        chimin |-> IF chimin.given THEN chimin.value
                   ELSE max(K1.xmin_clipped, K2.xmin_clipped),
        chimax |-> IF chimax.given THEN chimax.value
                   ELSE min(K1.xmax_clipped, K2.xmax_clipped),
        get_dlogchi |-> FALSE,
        dchi |-> IF dchi.given THEN dchi.value
                 ELSE min(Div(K1.sigma, sig_over_dchi.value),
                          Div(K2.sigma, sig_over_dchi.value))]

\* compute_exact, lines 391-400 and 510-519: chimin and chimax, and the dchi
\* handed to get_dlogchi when dlogchi is None; sig_over_dchi = None makes
\* the division raise
get_dlogchi_args(K1, K2, chimin, chimax, dlogchi, sig_over_dchi) ==
  IF ~dlogchi.given /\ ~sig_over_dchi.given THEN [NoWindow EXCEPT !.exc = "TypeError"]
  ELSE LET sig == min(Div(K1.sigma, sig_over_dchi.value),
                      Div(K2.sigma, sig_over_dchi.value))
       IN [exc |-> "none",
           chimin |-> IF chimin.given THEN chimin.value
                      ELSE max(K1.xmin_clipped, K2.xmin_clipped),
           chimax |-> IF chimax.given THEN chimax.value
                      ELSE min(K1.xmax_clipped, K2.xmax_clipped),
           get_dlogchi |-> ~dlogchi.given,
           dchi |-> IF dlogchi.given THEN Frac(0, 1)
                    ELSE Div(sig, sig_over_dchi.value)]

\* one call of compute_limber or compute_exact, up to the integration code
CallQuadrature ==
  /\ pc = "numeric"
  /\ pc' = "integrated"
  /\ \E fn \in {"compute_limber", "compute_exact"} :
     \E K1, K2 \in KernelSplines : \E chimin, chimax, step \in Supplied :
     \E sig_over_dchi \in SigOverDchiValues :
       quadrature' =
         [fn |-> fn, K1 |-> K1, K2 |-> K2, chimin |-> chimin, chimax |-> chimax,
          step |-> step, sig_over_dchi |-> sig_over_dchi,
          args |-> IF fn = "compute_limber"
                   THEN limber_integral_args(K1, K2, chimin, chimax, step, sig_over_dchi)
                   ELSE get_dlogchi_args(K1, K2, chimin, chimax, step, sig_over_dchi)]
  /\ UNCHANGED <<setupVars, distance, exact_kwargs, kernels, power, outputs,
                 lensing_prefactor, bias, run, k, block, calls, events, pending,
                 lastExit, prepared>>

(* --------------------------- specification ---------------------------- *)
InitCommon ==
  /\ pc = "init"
  /\ fatal_errors \in BOOLEAN
  /\ req_spectra = << >>
  /\ req_kernel_keys = {}
  /\ req_power_options = {}
  /\ do_exact_section_names = {}
  /\ kernels = [s \in Samples |-> NoKernel]
  /\ power = [pk \in PowerKeys |-> NoPower]
  /\ outputs = {}
  /\ lensing_prefactor = <<"unset", 0>>
  /\ bias = << >>
  /\ run = 0
  /\ k = 0
  /\ block = EmptyBlock
  /\ calls = << >>
  /\ events = {}
  /\ pending = NoExit
  /\ lastExit = NoExit
  /\ ell_exact = << >>
  /\ ell_limber = logspace(EllMinExp, EllMaxExp)
  /\ prepared = {}
  /\ options = {}
  /\ exact_kwargs = NoKwargs
  /\ distance = NoDistance
  /\ quadrature = NoQuadrature

\* the options read by __init__ before the grids are built
Init ==
  /\ InitCommon
  /\ option_kinds = KindsSampled
  /\ do_rsd = DefaultDoRsd
  /\ do_exact_option_names \in {d \in SUBSET KindsSampled : Cardinality(d) <= MaxExact}
  /\ limber_ell_start = DefaultLimberEllStart
  /\ n_ell_exact = DefaultNEllExact
  /\ n_ell_exact_option = n_ell_exact

Next ==
  \/ SetExactGrid
  \/ ParseOption
  \/ FinishInit
  \/ ExecuteStart
  \/ LoadKernels
  \/ LoadPower
  \/ LoadLensingPrefactor
  \/ ComputeSpectrum
  \/ ExecuteReturn
  \/ Finally

Spec == Init /\ [][Next]_vars


(* ------------------------------ properties ---------------------------- *)
Exited == pc = "idle" /\ lastExit.status # "none"

CachesReleased ==
  /\ \A sm \in Samples : ~kernels[sm].loaded
  /\ \A pk \in PowerKeys : ~power[pk].loaded
  /\ outputs = {}
  /\ lensing_prefactor = <<"None", 0>>

IsClustering(x) == SpectrumType[req_spectra[x].kind].cls = "LingalLingalSpectrum"

\* C1: whenever execute has left (returned 0, returned 1 after a
\* NullSplineError, or raised), clean has run: the kernels, power and outputs
\* caches are empty and lensing_prefactor is None.
C1_CachesReleasedOnEveryExit == Exited => CachesReleased

\* an execute that loaded kernels, power and prefactor and then left with an
\* exception raised while computing a spectrum
C1_Witness ==
  /\ Exited
  /\ lastExit.status = "raised"
  /\ lastExit.stage = "compute_spectrum"
  /\ {"kernels", "power", "prefactor"} \subseteq events

\* C2: when load_kernels raised NullSplineError, execute returned 1 if
\* fatal_errors is false and re-raised it if true; in both cases no power
\* spectrum was loaded, no spectrum was computed or written, and the caches
\* are released.
C2_NullSplineHandling ==
  (Exited /\ lastExit.stage = "load_kernels" /\ lastExit.cause = "NullSplineError") =>
     /\ ~fatal_errors => lastExit.status = "returned" /\ lastExit.value = "1"
     /\ fatal_errors => lastExit.status = "raised" /\ lastExit.value = "NullSplineError"
     /\ "power" \notin events
     /\ calls = << >>
     /\ block = EmptyBlock
     /\ CachesReleased

\* a run with requested spectra and fatal_errors true whose kernel loading
\* raised NullSplineError
C2_Witness ==
  /\ Exited
  /\ lastExit.cause = "NullSplineError"
  /\ fatal_errors
  /\ lastExit.status = "raised"
  /\ Len(req_spectra) > 0

\* the bias values of table t were all loaded from the block of run r
LoadedInRun(t, r) == \A x \in 1..Len(t) : t[x][4] = r

\* C3 as stated: at the end of every execute no clustering Spectrum still
\* holds bias values loaded during that run.
C3_BiasReleasedAtExit ==
  Exited => \A x \in 1..Len(req_spectra) :
              IsClustering(x) => bias[x].a = << >> /\ bias[x].b = << >>

\* C3 amended: the bias tables are not released at the end of execute; a
\* clustering Spectrum whose bin loop was entered in a run holds, from then
\* until after the run has ended, the tables prep_spectrum loaded from that
\* run's block, one value per bin of each sample (tables of an earlier run
\* never survive a prep_spectrum).
C3_BiasRefreshedEachRun ==
  \A pr \in prepared :
    IsClustering(pr.spectrum) =>
      /\ bias[pr.spectrum].prepared
      /\ Len(bias[pr.spectrum].a) = pr.na /\ Len(bias[pr.spectrum].b) = pr.nb
      /\ LoadedInRun(bias[pr.spectrum].a, run) /\ LoadedInRun(bias[pr.spectrum].b, run)

\* the second execute has ended and a clustering spectrum prepared in it still
\* holds its bias values
C3_Witness ==
  /\ Exited
  /\ run = 2
  /\ \E pr \in prepared : IsClustering(pr.spectrum) /\ Len(bias[pr.spectrum].a) > 0


\* __init__ has returned a SpectrumCalculator
SetupDone == pc \notin {"init", "setup", "failed"}

OptionsFor(pk) == {o \in req_power_options : o[1] = pk[1] /\ o[2] = pk[2]}

\* C4: after parse_requested_spectra, req_power_options never holds both
\* (kind, suffix, True) and (kind, suffix, False), and when some requested
\* spectrum using (kind, suffix) is in exact mode the only entry for it is
\* the exact-mode one.
C4_ExactSupersedes ==
  SetupDone =>
    \A pk \in PowerKeys :
      /\ ~(<<pk[1], pk[2], TRUE>> \in req_power_options
           /\ <<pk[1], pk[2], FALSE>> \in req_power_options)
      /\ (\E x \in 1..Len(req_spectra) :
             req_spectra[x].power_key = pk /\ req_spectra[x].kind \in do_exact_option_names)
           => OptionsFor(pk) = {<<pk[1], pk[2], TRUE>>}

Legs(s) ==
  {<<SpectrumType[s.kind].kernel_types[1], s.sample_a>>,
   <<SpectrumType[s.kind].kernel_types[2], s.sample_b>>}

\* C5: after parse_requested_spectra, both legs of every requested Spectrum
\* are in req_kernel_keys, and req_kernel_keys holds nothing but legs of
\* requested spectra.
C5_BothLegsRequired ==
  SetupDone =>
    req_kernel_keys = UNION {Legs(req_spectra[x]) : x \in 1..Len(req_spectra)}

UnknownKernelType == \E key \in req_kernel_keys : key[1] \notin {"N", "W"}

CallsOf(x) == {c \in 1..Len(calls) : calls[c].spectrum = x}

ExpectedPairs(s, na, nb) ==
  IF SpectrumType[s.kind].autocorrelation /\ s.sample_a = s.sample_b
  THEN {pr \in (1..na) \X (1..na) : pr[2] <= pr[1]}
  ELSE (1..na) \X (1..nb)

\* the run was not ended by the block or by the external numerical code
NoExternalFailure == lastExit.cause \notin {"BlockError", "ExternalError", "KeyError"}

\* C7: for every Spectrum whose bin loop a run entered, compute was invoked
\* for exactly the pairs j <= i when the kind is an autocorrelation kind and
\* the two samples are equal, for all of 1..nbin_a x 1..nbin_b otherwise,
\* and for each pair exactly once.
C7_AllPairsEachOnce ==
  (Exited /\ NoExternalFailure) =>
    \A pr \in prepared :
      LET want == ExpectedPairs(req_spectra[pr.spectrum], pr.na, pr.nb)
      IN /\ {<<calls[c].bin1, calls[c].bin2>> : c \in CallsOf(pr.spectrum)} = want
         /\ Cardinality(CallsOf(pr.spectrum)) = Cardinality(want)

IsAutoSpectrum(x) == is_autocorrelation(req_spectra[x])

BinKey(x, i, j) == <<req_spectra[x].section_name, <<"bin", i, j>>>>

\* C8: once a run that neither the block nor the external numerical code
\* ended has left, the section of every autocorrelation Spectrum whose bin
\* loop it entered holds, for all i # j in 1..nbin, a C(l) under (i, j) and
\* under (j, i), and the two are equal.
C8_BothOrdersStored ==
  (Exited /\ NoExternalFailure) =>
    \A pr \in prepared :
      IsAutoSpectrum(pr.spectrum) =>
        \A i, j \in 1..pr.na :
          i # j => /\ BinKey(pr.spectrum, i, j) \in DOMAIN block
                   /\ BinKey(pr.spectrum, j, i) \in DOMAIN block
                   /\ block[BinKey(pr.spectrum, i, j)] = block[BinKey(pr.spectrum, j, i)]

RECURSIVE Above(_, _, _)
Above(seq, bound, p) ==
  IF p > Len(seq) THEN << >>
  ELSE (IF seq[p] > bound THEN <<seq[p]>> ELSE << >>) \o Above(seq, bound, p + 1)

StrictlyIncreasing(seq) == \A x \in 1..(Len(seq) - 1) : seq[x] < seq[x + 1]

\* C9: a compute call given the exact grid returns the exact grid followed by
\* the Limber multipoles above its maximum, strictly increasing, with a C(l)
\* entry per multipole, exact for the exact part and Limber for the rest; a
\* call without exact grid returns the whole Limber grid with Limber values.
C9_StitchedSeries ==
  \A c \in 1..Len(calls) :
    calls[c].exc \notin {"ExternalError", "KeyError"} =>
      /\ calls[c].exc = "none"
      /\ calls[c].ell = IF calls[c].exact
                        THEN ell_exact \o Above(ell_limber, Last(ell_exact), 1)
                        ELSE ell_limber
      /\ StrictlyIncreasing(calls[c].ell)
      /\ Len(calls[c].c_ell) = Len(calls[c].ell)
      /\ \A x \in 1..Len(calls[c].c_ell) :
           calls[c].c_ell[x][1] =
             IF calls[c].exact /\ x <= Len(ell_exact) THEN "exact" ELSE "limber"

(* ----------------- the exact grid over its configurations -------------- *)
MaxNEll == 6
MaxEllStart == 10

\* the options n_ell_exact and limber_ell_start range over small values, and
\* the pair n_ell_exact = 10, limber_ell_start = 300
InitGrid ==
  /\ InitCommon
  /\ option_kinds = KindsSampled
  /\ do_rsd = DefaultDoRsd
  /\ do_exact_option_names \in {d \in SUBSET KindsSampled : Cardinality(d) <= MaxExact}
  /\ \/ limber_ell_start \in 1..MaxEllStart /\ n_ell_exact \in 1..MaxNEll
     \/ limber_ell_start = 300 /\ n_ell_exact = 10
  /\ n_ell_exact_option = n_ell_exact

NextGrid == SetExactGrid

SpecGrid == InitGrid /\ [][NextGrid]_vars

GridBuilt == pc = "setup" /\ do_exact_option_names # {}

GridIsSound ==
  /\ \A x \in 1..Len(ell_exact) : ell_exact[x] \in Nat
  /\ StrictlyIncreasing(ell_exact)
  /\ \E x \in 1..Len(ell_exact) : ell_exact[x] = 0
  /\ \E x \in 1..Len(ell_exact) : ell_exact[x] = 1
  /\ Len(ell_exact) <= n_ell_exact_option
  /\ n_ell_exact = Len(ell_exact)

LimberPart == use_limber(cut_ell_limber(ell_limber, ell_exact),
                         cut_ell_limber(ell_limber, ell_exact), ell_exact)

ElementsOf(seq) == {seq[x] : x \in 1..Len(seq)}

SetMax(S) == CHOOSE x \in S : \A y \in S : y <= x

TransitionAtEllStart ==
  /\ SetMax(ElementsOf(ell_exact)) = limber_ell_start
  /\ ElementsOf(LimberPart) = {l \in ElementsOf(ell_limber) : l > limber_ell_start}
  /\ \A l \in ElementsOf(ell_exact) : l <= limber_ell_start

\* C11 as stated: with exact mode enabled, for every n_ell_exact and
\* limber_ell_start the maximum of the exact grid is limber_ell_start, and
\* the multipoles an exact-mode spectrum puts out above it are those of the
\* Limber grid above it.
C11_TransitionAtEllStart == GridBuilt => TransitionAtEllStart

\* C11 amended: the same for every n_ell_exact >= 3 (the grid is [0] for
\* n_ell_exact = 1 and [0, 1] for n_ell_exact = 2, whatever limber_ell_start).
C11_TransitionAtEllStartFromThree ==
  (GridBuilt /\ n_ell_exact_option >= 3) => TransitionAtEllStart

\* a grid built with n_ell_exact >= 3 whose maximum lies strictly between
\* two Limber multipoles, with Limber multipoles joined above it
C11_Witness ==
  /\ GridBuilt
  /\ n_ell_exact_option >= 3
  /\ Last(ell_exact) = limber_ell_start
  /\ LimberPart # << >>
  /\ Len(LimberPart) < Len(ell_limber)

(* ------------------- prepare, then the bin pairs ----------------------- *)
\* table t holds for bin b a value loaded from the block of run r
BiasFound(t, b, r) == b \in 1..Len(t) /\ t[b][4] = r

\* C12: every compute call of a run is a call for a Spectrum whose
\* prep_spectrum ran before it in that run, and a call for a clustering
\* Spectrum finds the bias values of both bins of its pair, loaded from the
\* block of that run.
C12_PreparedBeforeCompute ==
  \A c \in 1..Len(calls) :
    /\ \E pr \in prepared : pr.spectrum = calls[c].spectrum
    /\ IsClustering(calls[c].spectrum) =>
         /\ calls[c].bias.prepared
         /\ BiasFound(calls[c].bias.a, calls[c].bin1, run)
         /\ BiasFound(calls[c].bias.b, calls[c].bin2, run)

\* in the second run, a compute call for a clustering Spectrum between two
\* different samples
C12_Witness ==
  /\ run = 2
  /\ \E c \in 1..Len(calls) :
       /\ IsClustering(calls[c].spectrum)
       /\ req_spectra[calls[c].spectrum].sample_a # req_spectra[calls[c].spectrum].sample_b
       /\ BiasFound(calls[c].bias.b, calls[c].bin2, 2)

(* ------------- a linear table on another redshift grid ----------------- *)
\* load_power was stopped by the assertion of set_nonlimber_splines
GridMismatch(e) == e.stage = "load_power" /\ e.cause = "AssertionError"

\* the cache holds an exact-mode Power3D of this run under the key of option o
CachedExact(o) ==
  LET pw == power[<<o[1], o[2]>>] IN pw.loaded /\ pw.exact /\ pw.run = run

get_prefactor(s, src, bin1, bin2) == Raise("NameError")

\* the states load_kernels can leave the kernel of a sample in
KernelStates ==
  {NoKernel} \cup
  {[loaded |-> TRUE, nbin |-> MaxBins, N |-> n, W |-> w, run |-> 1, built |-> 1] :
     n \in BOOLEAN, w \in BOOLEAN}

Methods == {"compute_limber", "compute_exact", "get_prefactor"}

\* one Spectrum of any kind on a SpectrumCalculator in the middle of its
\* first run: kernels and power loaded or not, the lensing prefactor set,
\* the bias tables prepared
InitCall ==
  /\ pc = "call"
  /\ fatal_errors = FALSE
  /\ do_exact_option_names = {}
  /\ \E kind \in DOMAIN SpectrumType : \E sp \in SamplePairs :
       req_spectra = <<NewSpectrum(kind, sp[1], sp[2],
                                   <<SpectrumType[kind].power_3d_type, "">>, "")>>
  /\ req_kernel_keys = {}
  /\ req_power_options = {}
  /\ do_exact_section_names = {}
  /\ kernels \in [Samples -> KernelStates]
  /\ \E loaded \in BOOLEAN :
       power = [pk \in PowerKeys |->
                  IF loaded /\ pk = req_spectra[1].power_key
                  THEN [loaded |-> TRUE, exact |-> TRUE, run |-> 1] ELSE NoPower]
  /\ outputs = {}
  /\ lensing_prefactor = <<"value", 1>>
  /\ bias = <<prep_spectrum(req_spectra[1], kernels, NoBias, 1)>>
  /\ run = 1
  /\ k = 1
  /\ block = EmptyBlock
  /\ calls = << >>
  /\ events = {}
  /\ pending = NoExit
  /\ lastExit = NoExit
  /\ limber_ell_start = DefaultLimberEllStart
  /\ n_ell_exact_option = MaxNEll
  /\ ell_exact = exact_grid(limber_ell_start, n_ell_exact_option)
  /\ n_ell_exact = Len(ell_exact)
  /\ ell_limber = logspace(EllMinExp, EllMaxExp)
  /\ prepared = {}
  /\ options = {}
  /\ option_kinds = {}
  /\ do_rsd = DefaultDoRsd
  /\ exact_kwargs = NoKwargs
  /\ distance = NoDistance
  /\ quadrature = NoQuadrature

\* one call of compute_limber, compute_exact or get_prefactor on the Spectrum
CallMethod ==
  /\ pc = "call"
  /\ pc' = "called"
  /\ \E fn \in Methods : \E bin1, bin2 \in 1..MaxBins :
     \E rsd \in BOOLEAN : \E ext \in BOOLEAN :
       LET s == req_spectra[1]
           res == IF fn = "compute_limber"
                  THEN compute_limber(s, Source, ell_limber, bin1, bin2, ext)
                  ELSE IF fn = "compute_exact"
                  THEN compute_exact(s, Source, ell_exact, bin1, bin2,
                                     [do_rsd |-> rsd], ext)
                  ELSE get_prefactor(s, Source, bin1, bin2)
       IN calls' = <<[spectrum |-> 1, bin1 |-> bin1, bin2 |-> bin2,
                      exact |-> fn = "compute_exact", exc |-> res.exc,
                      ell |-> res.ell, c_ell |-> res.c_ell, bias |-> bias[1],
                      exact_kwargs |-> [do_rsd |-> rsd],
                      fn |-> fn, do_rsd |-> rsd, ext |-> ext]>>
  /\ UNCHANGED <<setupVars, numericVars, exact_kwargs, kernels, power, outputs, lensing_prefactor, bias, run, k,
                 block, events, pending, lastExit, prepared>>

NextCall == CallMethod

SpecCall == InitCall /\ [][NextCall]_vars

\* a SpectrumCalculator after setup with nothing requested, on which
\* load_distance_splines, compute_limber or compute_exact is about to act
InitNumeric ==
  /\ pc = "numeric"
  /\ fatal_errors = FALSE
  /\ do_exact_option_names = {}
  /\ req_spectra = << >>
  /\ req_kernel_keys = {}
  /\ req_power_options = {}
  /\ do_exact_section_names = {}
  /\ kernels = [s \in Samples |-> NoKernel]
  /\ power = [pk \in PowerKeys |-> NoPower]
  /\ outputs = {}
  /\ lensing_prefactor = <<"unset", 0>>
  /\ bias = << >>
  /\ run = 0
  /\ k = 0
  /\ block = EmptyBlock
  /\ calls = << >>
  /\ events = {}
  /\ pending = NoExit
  /\ lastExit = NoExit
  /\ limber_ell_start = DefaultLimberEllStart
  /\ n_ell_exact = DefaultNEllExact
  /\ n_ell_exact_option = n_ell_exact
  /\ ell_exact = << >>
  /\ ell_limber = logspace(EllMinExp, EllMaxExp)
  /\ prepared = {}
  /\ options = {}
  /\ option_kinds = {}
  /\ do_rsd = DefaultDoRsd
  /\ exact_kwargs = NoKwargs
  /\ distance = NoDistance
  /\ quadrature = NoQuadrature

NextNumeric == LoadDistanceSplines \/ CallQuadrature

SpecNumeric == InitNumeric /\ [][NextNumeric]_vars

\* the kinds whose option may be present in the configurations explored
\* with do_exact naming up to MaxExactKinds options and do_rsd on or off:
\* two kinds that share the section name galaxy_cl, one of them with RSD
KindsExact == {"ShearShear", "PositionPosition", "LingalLingal"}
MaxExactKinds == 2

\* fatal_errors is left at its default
InitExact ==
  /\ InitCommon
  /\ ~fatal_errors
  /\ option_kinds = KindsExact
  /\ do_rsd \in BOOLEAN
  /\ do_exact_option_names \in
       {d \in SUBSET KindsExact : d # {} /\ Cardinality(d) <= MaxExactKinds}
  /\ limber_ell_start = DefaultLimberEllStart
  /\ n_ell_exact = DefaultNEllExact
  /\ n_ell_exact_option = n_ell_exact

SpecExact == InitExact /\ [][Next]_vars

BaseClass(x) == SpectrumType[req_spectra[x].kind].cls = "Spectrum"

\* C14: compute_exact of class Spectrum called with do_rsd = True fails with
\* the unsupported-mode error (the ValueError of line 380), whatever the
\* state of the kernels and of the power, and returns no C(l).
C14_RsdUnsupportedError ==
  \A c \in 1..Len(calls) :
    (calls[c].fn = "compute_exact" /\ calls[c].do_rsd /\ BaseClass(calls[c].spectrum)) =>
       /\ calls[c].exc = "ValueError"
       /\ calls[c].c_ell = << >>

(* ---------------- a spectrum whose computation raises ------------------ *)
SpectrumFailed(e) == e.stage = "compute_spectrum"

\* C15: when compute_spectrum raises for the k-th requested spectrum,
\* execute leaves with that exception and with the caches released, never
\* with a status; no spectrum after the k-th was prepared or computed in
\* that run.
C15_SpectrumErrorAbortsRun ==
  /\ (pc = "finally" /\ SpectrumFailed(pending)) =>
        pending.status = "raised" /\ pending.value = pending.cause
  /\ (Exited /\ SpectrumFailed(lastExit)) =>
        /\ lastExit.status = "raised"
        /\ lastExit.value = lastExit.cause
        /\ lastExit.cause # "none"
        /\ CachesReleased
        /\ k \in 1..Len(req_spectra)
        /\ \A pr \in prepared : pr.spectrum <= k
        /\ \A c \in 1..Len(calls) : calls[c].spectrum <= k

\* the first of two requested spectra raised inside a compute call, and
\* execute has left
C15_Witness ==
  /\ Exited
  /\ SpectrumFailed(lastExit)
  /\ lastExit.status = "raised"
  /\ k = 1
  /\ Len(req_spectra) = 2
  /\ calls # << >>

(* ------------------- no correlation option at all ---------------------- *)
\* no option of a correlation kind was found by parse_requested_spectra
NoOptionFound == SetupDone /\ req_spectra = << >>

\* the block of the run lacked the distance table or omega_m
BlockIncomplete(e) == e.cause = "BlockError"

IsToken(chars, x, y) ==
  /\ x <= y
  /\ \A z \in x..y : chars[z] # " "
  /\ x = 1 \/ chars[x - 1] = " "
  /\ y = Len(chars) \/ chars[y + 1] = " "

\* the value is not a string, is empty or blank, or has a token without '-'
Malformed(value) ==
  \/ ~value.is_string
  \/ \A x \in 1..Len(value.chars) : value.chars[x] = " "
  \/ \E x, y \in 1..Len(value.chars) :
        IsToken(value.chars, x, y) /\ \A z \in x..y : value.chars[z] # "-"

\* C17: when the value of a correlation option is not a string, is empty or
\* blank, or has a pair token without '-', the construction of the
\* SpectrumCalculator raises: setup never completes and no execute, hence
\* no distance, kernel, power or integral work, ever runs.
C17_MalformedOptionFailsSetup ==
  (\E o \in options : Malformed(o.value)) =>
     /\ pc = "failed"
     /\ lastExit.status = "raised" /\ lastExit.stage = "setup"
     /\ run = 0
     /\ events = {} /\ calls = << >> /\ block = EmptyBlock
     /\ \A sm \in Samples : ~kernels[sm].loaded
     /\ \A pk \in PowerKeys : ~power[pk].loaded

\* setup failed on a value whose first token is a pair and whose second
\* token has no '-', after another option had been accepted
C17_Witness ==
  /\ pc = "failed"
  /\ Len(req_spectra) > 0
  /\ \E o \in options :
       /\ o.value.is_string
       /\ Len(split(o.value.chars, << >>)) = 2
       /\ Malformed(o.value)

(* ------------------------- the prefactor ------------------------------- *)
\* the factor of one side: 1, the global lensing prefactor, or the
\* magnification factor 2 (alpha[bin] - 1) of the side's bin
SidePrefactor(ptype, bin) ==
  IF ptype = "lensing" THEN <<"lensing", lensing_prefactor>>
  ELSE IF ptype = "mag" THEN <<"mag", <<"alpha", bin>>>>
  ELSE <<"one", <<"unset", 0>>>>

CombinedPrefactor(kind, bin1, bin2) ==
  <<SidePrefactor(SpectrumType[kind].prefactor_type[1], bin1),
    SidePrefactor(SpectrumType[kind].prefactor_type[2], bin2)>>

\* the kernels and the power of the call are loaded, the external
\* quadrature does not fail, and the mode is one the variant supports
Computable(c) ==
  LET s == req_spectra[c.spectrum]
  IN /\ HasKernelSpline(kernels, s.sample_a, SpectrumType[s.kind].kernel_types[1])
     /\ HasKernelSpline(kernels, s.sample_b, SpectrumType[s.kind].kernel_types[2])
     /\ power[s.power_key].loaded
     /\ ~c.ext
     /\ ~(c.fn = "compute_exact" /\ c.do_rsd /\ BaseClass(c.spectrum))

\* C18: a call of compute_limber or compute_exact whose kernels and power
\* are loaded completes, for every variant and bin pair, and returns for
\* each multipole the raw integral times the combined prefactor of the
\* variant.
C18_PrefactorApplied ==
  \A c \in 1..Len(calls) :
    (calls[c].fn \in {"compute_limber", "compute_exact"} /\ Computable(calls[c])) =>
       /\ calls[c].exc = "none"
       /\ Len(calls[c].c_ell) = Len(calls[c].ell)
       /\ \A x \in 1..Len(calls[c].c_ell) :
            calls[c].c_ell[x] =
              <<IF calls[c].fn = "compute_exact" THEN "exact" ELSE "limber",
                calls[c].ell[x], calls[c].bin1, calls[c].bin2,
                CombinedPrefactor(req_spectra[calls[c].spectrum].kind,
                                  calls[c].bin1, calls[c].bin2)>>

(* ---------------------- one kernel per sample -------------------------- *)
KernelsLoaded == pc \in {"load_power", "load_lensing_prefactor", "spectra"}

KeysOf(sm) == {key \in req_kernel_keys : key[2] = sm}

SpectraNaming(sm) ==
  {x \in 1..Len(req_spectra) : sm \in {req_spectra[x].sample_a, req_spectra[x].sample_b}}

Entry(s, name) == <<s.section_name, <<name, 0, 0>>>>

Written(s, name) == Entry(s, name) \in DOMAIN block

\* the bin pairs for which the section of s holds a value array
StoredPairs(s) ==
  {pr \in (1..MaxBins) \X (1..MaxBins) :
     <<s.section_name, <<"bin", pr[1], pr[2]>>>> \in DOMAIN block}

\* no other requested spectrum writes to the section of spectrum x
OwnSection(x) ==
  \A y \in 1..Len(req_spectra) :
    req_spectra[y].section_name = req_spectra[x].section_name => y = x

SectionAsClaimed(s, na, nb) ==
  /\ \A name \in {"save_name", "sample_a", "sample_b", "sep_name", "nbin_a",
                   "nbin_b", "is_auto", "ell"} : Written(s, name)
  /\ block[Entry(s, "save_name")] = s.save_name
  /\ block[Entry(s, "sample_a")] = s.sample_a
  /\ block[Entry(s, "sample_b")] = s.sample_b
  /\ block[Entry(s, "nbin_a")] = na
  /\ block[Entry(s, "nbin_b")] = nb
  /\ block[Entry(s, "is_auto")] = is_autocorrelation(s)
  /\ StoredPairs(s) = ExpectedPairs(s, na, nb)
  /\ Written(s, "nbin") <=> is_autocorrelation(s)

\* C20: once a run that neither the block nor the external numerical code
\* ended has left, the section of every Spectrum whose bin loop it entered
\* holds save_name, sample_a, sample_b, sep_name, nbin_a, nbin_b, is_auto,
\* the multipole array and a value array for exactly the bin pairs of the
\* loop, and holds nbin only for an autocorrelation.
C20_SectionComplete ==
  (Exited /\ NoExternalFailure) =>
    \A pr \in prepared :
      OwnSection(pr.spectrum) =>
        SectionAsClaimed(req_spectra[pr.spectrum], pr.na, pr.nb)

(* -------------------------- runs are stateless -------------------------- *)
\* what the caches hold was loaded from the block of the current run, and so
\* was every bias table a compute call of a clustering Spectrum was given
LoadedFromThisBlock ==
  /\ \A sm \in Samples : kernels[sm].loaded => kernels[sm].run = run
  /\ \A pk \in PowerKeys : power[pk].loaded => power[pk].run = run
  /\ pc = "spectra" => lensing_prefactor = <<"value", run>>
  /\ \A c \in 1..Len(calls) :
       IsClustering(calls[c].spectrum) =>
         /\ LoadedInRun(calls[c].bias.a, run)
         /\ LoadedInRun(calls[c].bias.b, run)

\* a step leaves what setup has configured as it is
ConfigurationKept ==
  UNCHANGED <<req_spectra, req_kernel_keys, req_power_options, do_exact_section_names,
              ell_limber, ell_exact, n_ell_exact, limber_ell_start, exact_kwargs,
              do_rsd, fatal_errors>>

\* C21: an execute reads nothing an earlier execute left behind.  Between
\* two runs the caches are empty; during a run every kernel, Power3D,
\* lensing prefactor and bias table present was loaded from that run's
\* block; and no step of execute changes req_spectra, req_kernel_keys,
\* req_power_options, the l grids or exact_kwargs.  The outputs and the
\* status of a run are therefore a function of the configuration and of the
\* run's block.
C21_RunsAreStateless ==
  /\ [](SetupDone => LoadedFromThisBlock)
  /\ [](pc = "idle" => (\A sm \in Samples : ~kernels[sm].loaded)
                       /\ (\A pk \in PowerKeys : ~power[pk].loaded)
                       /\ outputs = {})
  /\ [][SetupDone => ConfigurationKept]_vars

\* the second run computes a clustering spectrum in exact mode after a
\* first run that had loaded kernels and power
C21_Witness ==
  /\ run = 2
  /\ lastExit.status = "none"
  /\ \E c \in 1..Len(calls) : IsClustering(calls[c].spectrum) /\ calls[c].exact

(* --------------------- the window of the Limber integral ---------------- *)
\* the smaller of the two kernel widths
NarrowerSigma(q) == IF Less(q.K2.sigma, q.K1.sigma) THEN q.K2.sigma ELSE q.K1.sigma

\* v is the larger (smaller) of p and q
LargerOf(v, p, q) == (Same(v, p) \/ Same(v, q)) /\ ~Less(v, p) /\ ~Less(v, q)
SmallerOf(v, p, q) == (Same(v, p) \/ Same(v, q)) /\ ~Less(p, v) /\ ~Less(q, v)

\* C22: compute_limber hands to the quadrature, for each of chimin, chimax
\* and dchi, the value the caller supplied; where none was supplied, chimin
\* is the larger xmin_clipped of the two kernels, chimax the smaller
\* xmax_clipped, and dchi the sigma of the narrower kernel divided by
\* sig_over_dchi.
C22_LimberWindow ==
  (quadrature.fn = "compute_limber" /\ quadrature.args.exc = "none") =>
    LET q == quadrature
    IN /\ IF q.chimin.given THEN q.args.chimin = q.chimin.value
          ELSE LargerOf(q.args.chimin, q.K1.xmin_clipped, q.K2.xmin_clipped)
       /\ IF q.chimax.given THEN q.args.chimax = q.chimax.value
          ELSE SmallerOf(q.args.chimax, q.K1.xmax_clipped, q.K2.xmax_clipped)
       /\ IF q.step.given THEN q.args.dchi = q.step.value
          ELSE Same(q.args.dchi, Div(NarrowerSigma(q), q.sig_over_dchi.value))

\* compute_limber with nothing supplied, on two kernels of different
\* supports and widths, the second one the narrower
C22_Witness ==
  /\ quadrature.fn = "compute_limber"
  /\ quadrature.args.exc = "none"
  /\ ~quadrature.chimin.given /\ ~quadrature.chimax.given /\ ~quadrature.step.given
  /\ Less(quadrature.K2.sigma, quadrature.K1.sigma)
  /\ Less(quadrature.K1.xmin_clipped, quadrature.K2.xmin_clipped)
  /\ Less(quadrature.K1.xmax_clipped, quadrature.K2.xmax_clipped)

(* --------------------------- the distance table ------------------------- *)
\* C23: load_distance_splines keeps z ascending: a table supplied in
\* descending redshift is reversed, z, a and chi together, so that every
\* row stays a row, and a table supplied ascending keeps its order; every
\* stored chi is the chi of its row times h0.  For z = [0, 1, 2, 3],
\* chi = [0, 1000, 1700, 2100] and h0 = 0.7 the stored chi is
\* [0, 700, 1190, 1470].
C23_DistanceTable ==
  distance.loaded =>
    LET t == distance.table
        n == Len(t.z)
        descending == \A x \in 1..(n - 1) : t.z[x + 1] < t.z[x]
        row(x) == IF descending THEN n + 1 - x ELSE x
    IN /\ Len(distance.z) = n /\ Len(distance.a) = n /\ Len(distance.chi) = n
       /\ \A x \in 1..(n - 1) : distance.z[x] < distance.z[x + 1]
       /\ \A x \in 1..n :
            /\ distance.z[x] = t.z[row(x)]
            /\ distance.a[x] = t.a[row(x)]
            /\ Same(distance.chi[x], Times(t.d_m[row(x)], distance.h0))
       /\ (t.z = <<0, 1, 2, 3>> /\ t.d_m = <<Frac(0, 1), Frac(1000, 1), Frac(1700, 1),
                                            Frac(2100, 1)>>
           /\ distance.h0 = Frac(7, 10)) =>
            /\ Same(distance.chi[1], Frac(0, 1))
            /\ Same(distance.chi[2], Frac(700, 1))
            /\ Same(distance.chi[3], Frac(1190, 1))
            /\ Same(distance.chi[4], Frac(1470, 1))

\* the table of the example supplied in descending redshift, h0 = 0.7
C23_Witness ==
  /\ distance.loaded
  /\ distance.table.z = <<3, 2, 1, 0>>
  /\ distance.h0 = Frac(7, 10)
  /\ Same(distance.chi[4], Frac(1470, 1))

\* the table of the example as given, h0 = 0.7
C23_WitnessAscending ==
  /\ distance.loaded
  /\ distance.table.z = <<0, 1, 2, 3>>
  /\ distance.h0 = Frac(7, 10)

(* ------------------------ the step of the exact part -------------------- *)
\* C27: when dlogchi is not supplied, compute_exact hands to get_dlogchi
\* the chi step sig / sig_over_dchi, sig being the sigma of the narrower of
\* the two kernels.
C27_ExactStep ==
  (quadrature.fn = "compute_exact" /\ quadrature.args.get_dlogchi) =>
    Same(quadrature.args.dchi,
         Div(NarrowerSigma(quadrature), quadrature.sig_over_dchi.value))

(* ------------------- the Power3D of an exact-mode spectrum -------------- *)
\* C24: while a run computes its spectra, the Power3D that a compute call
\* in exact mode finds under the power_key of its Spectrum has the
\* exact-mode splines set.
C24_ExactSplinesPresent ==
  pc \in {"spectra", "finally"} =>
    \A c \in 1..Len(calls) :
      calls[c].exact =>
        /\ power[req_spectra[calls[c].spectrum].power_key].loaded
        /\ power[req_spectra[calls[c].spectrum].power_key].exact

(* ------------------- which spectra run in exact mode -------------------- *)
KindListed(x) == req_spectra[x].kind \in do_exact_option_names

\* C25: a compute call is given the exact grid if and only if the option of
\* its Spectrum's kind is listed in do_exact.
C25_ExactIffListed ==
  \A c \in 1..Len(calls) : calls[c].exact <=> KindListed(calls[c].spectrum)

(* ------------------------- the keyword do_rsd --------------------------- *)
HasRsd(x) == SpectrumType[req_spectra[x].kind].has_rsd

\* C26: the keyword arguments compute_spectrum hands to compute for the
\* exact calculation hold do_rsd, with the configured value, exactly when
\* the kind of the Spectrum has has_rsd; and self.exact_kwargs stays as
\* setup built it, without do_rsd, whatever was computed before.
C26_RsdKeywordScoped ==
  /\ pc # "init" =>
       exact_kwargs = IF do_exact_option_names # {} THEN ExactKwargsOption ELSE NoKwargs
  /\ \A c \in 1..Len(calls) :
       calls[c].exact =>
         IF HasRsd(calls[c].spectrum)
         THEN /\ "do_rsd" \in DOMAIN calls[c].exact_kwargs
              /\ calls[c].exact_kwargs["do_rsd"] = do_rsd
         ELSE "do_rsd" \notin DOMAIN calls[c].exact_kwargs

\* with do_rsd on, the second run computes in exact mode a spectrum without
\* RSD, after the first run computed in exact mode a bin pair of a
\* clustering spectrum that comes later in req_spectra
C26_Witness ==
  /\ run = 2
  /\ do_rsd
  /\ \E c \in 1..Len(calls) :
       /\ calls[c].exact
       /\ ~HasRsd(calls[c].spectrum)
       /\ \E x \in 1..Len(req_spectra) :
            /\ x > calls[c].spectrum
            /\ HasRsd(x)
            /\ req_spectra[x].section_name \in do_exact_section_names
            /\ Len(bias[x].a) > 0

====
